---- MODULE Spec2Model ----
(***************************************************************************)
(* A model of vs/base/common/buffer.ts: the VSBuffer value type (a handle  *)
(* on a Uint8Array view of some backing storage), its big-endian integer   *)
(* codec, its UTF-8 string conversion and the adapters that bridge it to   *)
(* the streams collaborator.                                               *)
(*                                                                         *)
(* Memory is an arena: mem[s] is the byte content of backing store s, and  *)
(* a VSBuffer is a view [store, off, len] of one store, as a Uint8Array is *)
(* a view (buffer, byteOffset, byteLength) of an ArrayBuffer.              *)
(***************************************************************************)
EXTENDS Integers, Sequences, FiniteSets

VARIABLES env, mem, bufs, last, cc,
          inState, delivered, chunks, promise, settles, outState, outChunks,
          source, encoded, decoded

bufVars == <<mem, bufs, last, cc>>
streamVars == <<inState, delivered, chunks, promise, settles, outState, outChunks>>
codecVars == <<source, encoded, decoded>>
vars == <<env, mem, bufs, last, cc, inState, delivered, chunks, promise, settles,
          outState, outChunks, source, encoded, decoded>>

(***************************************************************************)
(* Bounds of the model.                                                    *)
(***************************************************************************)
MaxList == 2
MaxLen == 1
ViewLen == 2
OwnLen == 1
IntLen == 5
MaxChunks == 3
MaxStr == 2

(***************************************************************************)
(* Optional arguments: <<>> is undefined, <<n>> is the number n.           *)
(***************************************************************************)
Undefined == <<>>
Some(n) == <<n>>
Opt(S) == {Undefined} \cup {Some(n) : n \in S}

RECURSIVE Flatten(_)
Flatten(seqs) == IF seqs = <<>> THEN <<>> ELSE Head(seqs) \o Flatten(Tail(seqs))

Min(a, b) == IF a < b THEN a ELSE b
Max(a, b) == IF a > b THEN a ELSE b

(***************************************************************************)
(* JavaScript numbers that are integers, kept exact beyond 2^31: the value *)
(* is (-1)^neg * (top * 2^32 + hi * 2^16 + lo) with 16-bit limbs hi, lo.   *)
(* nan marks NaN (the other fields are then 0).                            *)
(***************************************************************************)
Num(neg, top, hi, lo) == [nan |-> FALSE, neg |-> neg, top |-> top, hi |-> hi, lo |-> lo]
NaN == [nan |-> TRUE, neg |-> FALSE, top |-> 0, hi |-> 0, lo |-> 0]
Small(n) == Num(FALSE, 0, n \div 65536, n % 65536)

\* ECMAScript ToUint32: the value modulo 2^32 (NaN is 0), as limbs <<hi, lo>>.
ToUint32(v) ==
    IF v.nan THEN <<0, 0>>
    ELSE IF ~v.neg THEN <<v.hi, v.lo>>
    ELSE IF v.lo = 0 THEN <<(65536 - v.hi) % 65536, 0>>
    ELSE <<65535 - v.hi, 65536 - v.lo>>

\* ECMAScript ToUint8, the conversion of a store into a Uint8Array element.
ToUint8(v) == ToUint32(v)[2] % 256

\* value >>> 8
ShiftRight8(v) ==
    LET u == ToUint32(v)
    IN  Num(FALSE, 0, u[1] \div 256, (u[1] % 256) * 256 + (u[2] \div 256))

(***************************************************************************)
(* Views.                                                                  *)
(***************************************************************************)
View(store, off, len) == [store |-> store, off |-> off, len |-> len]

\* The bytes a view shows, first byte at index 1.
Bytes(m, v) == [i \in 1..v.len |-> m[v.store][v.off + i]]

\* source[index]: a byte, or <<>> (undefined) outside the view.
ElementAt(m, v, index) ==
    IF index >= 0 /\ index < v.len THEN Some(m[v.store][v.off + index + 1]) ELSE Undefined

\* destination[index] = value on a typed array: the store is dropped outside
\* the view, the value is converted with ToUint8 inside it.
StoreElement(m, v, index, value) ==
    IF index >= 0 /\ index < v.len
    THEN [m EXCEPT ![v.store][v.off + index + 1] = ToUint8(value)]
    ELSE m

writeUInt8(m, v, value, offset) == StoreElement(m, v, offset, value)

\* Uint8Array.prototype.set(array, offset): RangeError unless the source fits
\* at the offset; the source bytes are read before any is written.
TypedArraySet(m, dst, src, offset) ==
    LET o == IF offset = Undefined THEN 0 ELSE offset[1]
        b == Bytes(m, src)
    IN  IF o < 0 \/ o + src.len > dst.len
        THEN [threw |-> TRUE, mem |-> m]
        ELSE [threw |-> FALSE,
              mem |-> [m EXCEPT ![dst.store] =
                         [j \in DOMAIN @ |->
                            IF j > dst.off + o /\ j <= dst.off + o + src.len
                            THEN b[j - dst.off - o] ELSE @[j]]]]

\* VSBuffer.set
set(m, dst, src, offset) == TypedArraySet(m, dst, src, offset)

\* TypedArray.prototype.subarray(begin, end): relative indices are clamped and
\* the new view shares the store.
RelativeIndex(k, len) == IF k < 0 THEN Max(len + k, 0) ELSE Min(k, len)

subarray(v, start, end) ==
    LET b == IF start = Undefined THEN 0 ELSE RelativeIndex(start[1], v.len)
        e == IF end = Undefined THEN v.len ELSE RelativeIndex(end[1], v.len)
    IN  View(v.store, v.off + b, Max(e - b, 0))

\* TypedArray.prototype.slice semantics: a copy in a store of its own.
slice_copy(m, v, start, end) ==
    LET s == subarray(v, start, end)
    IN  [mem |-> Append(m, Bytes(m, s)), buf |-> View(Len(m) + 1, 0, s.len)]

\* VSBuffer.slice
slice(m, v, start, end) == [mem |-> m, buf |-> subarray(v, start, end)]

\* VSBuffer.alloc: a view of a new store of byteLength bytes. With the host
\* Buffer the content is whatever the allocator hands out (garbage), without
\* it the bytes are zero.
alloc(hasBuffer, m, byteLength, garbage) ==
    [mem |-> Append(m, [i \in 1..byteLength |-> IF hasBuffer THEN garbage[i] ELSE 0]),
     buf |-> View(Len(m) + 1, 0, byteLength)]

(***************************************************************************)
(* The big-endian 32-bit codec.                                            *)
(***************************************************************************)
\* The bytes combined with << and |, which yield a signed 32-bit result.
readUInt32BE_signed(m, v, offset) ==
    LET b0 == ElementAt(m, v, offset)
        b1 == ElementAt(m, v, offset + 1)
        b2 == ElementAt(m, v, offset + 2)
        b3 == ElementAt(m, v, offset + 3)
        u == <<(IF b0 = Undefined THEN 0 ELSE b0[1]) * 256 + (IF b1 = Undefined THEN 0 ELSE b1[1]),
               (IF b2 = Undefined THEN 0 ELSE b2[1]) * 256 + (IF b3 = Undefined THEN 0 ELSE b3[1])>>
    IN  IF u[1] < 32768 THEN Num(FALSE, 0, u[1], u[2])
        ELSE IF u[2] = 0 THEN Num(TRUE, 0, 65536 - u[1], 0)
        ELSE Num(TRUE, 0, 65535 - u[1], 65536 - u[2])

readUInt32BE(m, v, offset) ==
    LET b0 == ElementAt(m, v, offset)
        b1 == ElementAt(m, v, offset + 1)
        b2 == ElementAt(m, v, offset + 2)
        b3 == ElementAt(m, v, offset + 3)
    IN  IF Undefined \in {b0, b1, b2, b3} THEN NaN
        ELSE Num(FALSE, 0, b0[1] * 256 + b1[1], b2[1] * 256 + b3[1])

\* The bytes stored least significant first.
writeUInt32BE_littleEndian(m, v, value, offset) ==
    LET m1 == StoreElement(m, v, offset, value)
        v1 == ShiftRight8(value)
        m2 == StoreElement(m1, v, offset + 1, v1)
        v2 == ShiftRight8(v1)
        m3 == StoreElement(m2, v, offset + 2, v2)
        v3 == ShiftRight8(v2)
    IN  StoreElement(m3, v, offset + 3, v3)

writeUInt32BE(m, v, value, offset) ==
    LET m1 == StoreElement(m, v, offset + 3, value)
        v1 == ShiftRight8(value)
        m2 == StoreElement(m1, v, offset + 2, v1)
        v2 == ShiftRight8(v1)
        m3 == StoreElement(m2, v, offset + 1, v2)
        v3 == ShiftRight8(v2)
    IN  StoreElement(m3, v, offset, v3)

(***************************************************************************)
(* VSBuffer.concat.                                                        *)
(***************************************************************************)
RECURSIVE SumByteLength(_, _)
SumByteLength(buffers, i) ==
    IF i > Len(buffers) THEN 0 ELSE buffers[i].len + SumByteLength(buffers, i + 1)

\* The explicit length ignored.
TotalLength_alwaysSum(buffers, totalLength) == SumByteLength(buffers, 1)

\* Lines 51-56: the length of the result.
TotalLength(buffers, totalLength) ==
    IF totalLength = Undefined THEN SumByteLength(buffers, 1) ELSE totalLength[1]

\* The running offset never advanced.
RECURSIVE CopyLoop_noAdvance(_, _, _, _, _)
CopyLoop_noAdvance(m, ret, buffers, i, offset) ==
    IF i > Len(buffers) THEN [threw |-> FALSE, mem |-> m]
    ELSE LET r == set(m, ret, buffers[i], Some(offset))
         IN  IF r.threw THEN r
             ELSE CopyLoop_noAdvance(r.mem, ret, buffers, i + 1, offset)

\* Lines 59-64: each element is set at the running offset; a RangeError of
\* set leaves the loop.
RECURSIVE CopyLoop(_, _, _, _, _)
CopyLoop(m, ret, buffers, i, offset) ==
    IF i > Len(buffers) THEN [threw |-> FALSE, mem |-> m]
    ELSE LET r == set(m, ret, buffers[i], Some(offset))
         IN  IF r.threw THEN r
             ELSE CopyLoop(r.mem, ret, buffers, i + 1, offset + buffers[i].len)

\* A single input handed back as the result.
concat_reuseSingle(hasBuffer, m, buffers, totalLength, garbage) ==
    LET a == alloc(hasBuffer, m, TotalLength(buffers, totalLength), garbage)
        r == CopyLoop(a.mem, a.buf, buffers, 1, 0)
    IN  IF Len(buffers) = 1 /\ totalLength = Undefined
        THEN [threw |-> FALSE, mem |-> m, buf |-> buffers[1]]
        ELSE [threw |-> r.threw, mem |-> IF r.threw THEN m ELSE r.mem, buf |-> a.buf]

\* The result, or threw with the memory as it was (the store allocated for the
\* result is then unreachable).
concat(hasBuffer, m, buffers, totalLength, garbage) ==
    LET a == alloc(hasBuffer, m, TotalLength(buffers, totalLength), garbage)
        r == CopyLoop(a.mem, a.buf, buffers, 1, 0)
    IN  [threw |-> r.threw, mem |-> IF r.threw THEN m ELSE r.mem, buf |-> a.buf]

(***************************************************************************)
(* The state.                                                              *)
(*   env        the host's capabilities (lines 11-13)                      *)
(*   mem, bufs  the backing stores and the VSBuffer handles created so far;*)
(*              a handle remembers the slice call that made it             *)
(*   last       the latest operation, its arguments and its outcome        *)
(*   cc         the latest concat that returned: its result and its inputs *)
(***************************************************************************)
Envs == [hasBuffer : BOOLEAN, hasTextEncoder : BOOLEAN, hasTextDecoder : BOOLEAN]

Handle(view, parent, start, end) ==
    [view |-> view, parent |-> parent, start |-> start, end |-> end]

Op(op, h, src, off, val, total, ret, threw) ==
    [op |-> op, h |-> h, src |-> src, off |-> off, val |-> val, total |-> total,
     ret |-> ret, threw |-> threw]

NoOp == Op("none", 0, <<>>, Undefined, Small(0), Undefined, 0, FALSE)
NoConcat == [ret |-> 0, inputs |-> <<>>]

GarbageBytes == {0, 170}
Garbage(len) == [1..len -> GarbageBytes]

Handles == 1..Len(bufs)
ViewOf(h) == bufs[h].view
ViewsOf(list) == [i \in 1..Len(list) |-> ViewOf(list[i])]
Lists(S, n) == UNION {[1..k -> S] : k \in 0..n}

StreamIdle ==
    /\ inState = "open" /\ delivered = <<>> /\ chunks = <<>>
    /\ promise = [state |-> "pending", value |-> Undefined] /\ settles = 0
    /\ outState = "open" /\ outChunks = <<>>

CodecIdle == source = <<>> /\ encoded = Undefined /\ decoded = Undefined

\* A heap of n buffers, each the only view of a store of its own, with any
\* content of at most maxLen bytes.
RECURSIVE Heaps(_, _)
Heaps(n, maxLen) ==
    IF n = 0 THEN {<<>>}
    ELSE {Append(m, c) : m \in Heaps(n - 1, maxLen),
                         c \in UNION {Garbage(k) : k \in 0..maxLen}}

Hosts == {e \in Envs : e.hasTextEncoder /\ e.hasTextDecoder}

HeapInit(counts, maxLen) ==
    /\ mem \in UNION {Heaps(n, maxLen) : n \in counts}
    /\ bufs = [i \in 1..Len(mem) |-> Handle(View(i, 0, Len(mem[i])), 0, Undefined, Undefined)]
    /\ last = NoOp /\ cc = NoConcat

(***************************************************************************)
(* The buffer operations.                                                  *)
(***************************************************************************)
Alloc(byteLength, garbage) ==
    /\ \E r \in {alloc(env.hasBuffer, mem, byteLength, garbage)} :
          /\ mem' = r.mem
          /\ bufs' = Append(bufs, Handle(r.buf, 0, Undefined, Undefined))
          /\ last' = Op("alloc", 0, <<>>, Undefined, Small(0), Some(byteLength),
                        Len(bufs) + 1, FALSE)
    /\ UNCHANGED <<env, cc, streamVars, codecVars>>

Slice(h, start, end) ==
    /\ \E r \in {slice(mem, ViewOf(h), start, end)} :
          /\ mem' = r.mem
          /\ bufs' = Append(bufs, Handle(r.buf, h, start, end))
          /\ last' = Op("slice", h, <<>>, Undefined, Small(0), Undefined,
                        Len(bufs) + 1, FALSE)
    /\ UNCHANGED <<env, cc, streamVars, codecVars>>

Set(h, s, offset) ==
    /\ \E r \in {set(mem, ViewOf(h), ViewOf(s), offset)} :
          /\ mem' = r.mem
          /\ last' = Op("set", h, <<s>>, offset, Small(0), Undefined, 0, r.threw)
    /\ UNCHANGED <<env, bufs, cc, streamVars, codecVars>>

WriteUInt8(h, value, offset) ==
    /\ mem' = writeUInt8(mem, ViewOf(h), value, offset)
    /\ last' = Op("writeUInt8", h, <<>>, Some(offset), value, Undefined, 0, FALSE)
    /\ UNCHANGED <<env, bufs, cc, streamVars, codecVars>>

WriteUInt32BE(h, value, offset) ==
    /\ mem' = writeUInt32BE(mem, ViewOf(h), value, offset)
    /\ last' = Op("writeUInt32BE", h, <<>>, Some(offset), value, Undefined, 0, FALSE)
    /\ UNCHANGED <<env, bufs, cc, streamVars, codecVars>>

ReadUInt32BE(h, offset) ==
    /\ last' = Op("readUInt32BE", h, <<>>, Some(offset),
                  readUInt32BE(mem, ViewOf(h), offset), Undefined, 0, FALSE)
    /\ UNCHANGED <<env, mem, bufs, cc, streamVars, codecVars>>

\* The handle of the result: a new one, unless concat handed back a view it
\* was given.
Concat(list, totalLength, garbage) ==
    /\ \E r \in {concat(env.hasBuffer, mem, ViewsOf(list), totalLength, garbage)} :
       \E n \in {IF r.buf \in {bufs[i].view : i \in Handles}
                 THEN CHOOSE i \in Handles : bufs[i].view = r.buf
                 ELSE Len(bufs) + 1} :
          /\ mem' = r.mem
          /\ bufs' = IF r.threw \/ n <= Len(bufs) THEN bufs
                     ELSE Append(bufs, Handle(r.buf, 0, Undefined, Undefined))
          /\ last' = Op("concat", 0, list, Undefined, Small(0), totalLength,
                        IF r.threw THEN 0 ELSE n, r.threw)
          /\ cc' = IF r.threw THEN cc ELSE [ret |-> n, inputs |-> list]
    /\ UNCHANGED <<env, streamVars, codecVars>>

(***************************************************************************)
(* Spec: concat applied to lists of buffers drawn with any content.        *)
(***************************************************************************)
MaxTotal == MaxLen + 1

Init == env \in Hosts /\ HeapInit(0..MaxList, MaxLen) /\ StreamIdle /\ CodecIdle

Next ==
    \/ /\ last.op = "none" /\ Len(bufs) < MaxList
       /\ \E n \in 0..MaxLen : \E g \in Garbage(n) : Alloc(n, g)
    \/ /\ last.op # "concat"
       /\ \E list \in Lists(Handles, MaxList), t \in Opt(0..MaxTotal) :
             /\ TotalLength(ViewsOf(list), t) <= MaxTotal
             /\ \E g \in Garbage(TotalLength(ViewsOf(list), t)) : Concat(list, t, g)

Spec == Init /\ [][Next]_vars

(***************************************************************************)
(* SpecView: a buffer and a view sliced from it, both written in place.    *)
(***************************************************************************)
Node == [hasBuffer |-> TRUE, hasTextEncoder |-> TRUE, hasTextDecoder |-> TRUE]
WriteValues == {Small(257)}
NoSlice == \A i \in Handles : bufs[i].parent = 0

InitView ==
    /\ env = Node
    /\ HeapInit({1}, ViewLen) /\ StreamIdle /\ CodecIdle

NextView ==
    \/ /\ NoSlice
       /\ \E h \in Handles, a, b \in Opt(-1..ViewLen) : Slice(h, a, b)
    \/ \E h, s \in Handles, o \in Opt(0..ViewLen) : Set(h, s, o)
    \/ \E h \in Handles, v \in WriteValues, o \in 0..ViewLen : WriteUInt8(h, v, o)
    \/ \E h \in Handles, v \in WriteValues, o \in 0..ViewLen : WriteUInt32BE(h, v, o)

SpecView == InitView /\ [][NextView]_vars

(***************************************************************************)
(* SpecOwn: a buffer, a view of it and a concatenation of them, all        *)
(* written in place.                                                       *)
(***************************************************************************)
InitOwn == env = Node /\ HeapInit({1}, OwnLen) /\ StreamIdle /\ CodecIdle

NextOwn ==
    \/ /\ NoSlice
       /\ \E h \in Handles, a \in 0..OwnLen : \E b \in a..OwnLen : Slice(h, Some(a), Some(b))
    \/ /\ cc = NoConcat
       /\ \E list \in Lists(Handles, MaxList) \ {<<>>} :
             /\ TotalLength(ViewsOf(list), Undefined) <= OwnLen
             /\ \E g \in Garbage(TotalLength(ViewsOf(list), Undefined)) :
                   Concat(list, Undefined, g)
    \/ \E h, s \in Handles, o \in Opt(0..OwnLen) : Set(h, s, o)
    \/ \E h \in Handles, v \in WriteValues, o \in 0..OwnLen : WriteUInt8(h, v, o)
    \/ \E h \in Handles, v \in WriteValues, o \in 0..OwnLen : WriteUInt32BE(h, v, o)

SpecOwn == InitOwn /\ [][NextOwn]_vars

(***************************************************************************)
(* SpecInt: the 32-bit codec on a buffer of IntLen bytes.                  *)
(***************************************************************************)
TwoTo32 == Num(FALSE, 1, 0, 0)
IntValues ==
    {Small(0), Num(FALSE, 0, 258, 772), Num(FALSE, 0, 32768, 0), Num(FALSE, 0, 65535, 65535),
     TwoTo32, Num(FALSE, 1, 258, 772), Num(TRUE, 0, 0, 1), Num(TRUE, 0, 0, 2)}

InitInt ==
    /\ env = Node
    /\ mem \in {<<c>> : c \in Garbage(IntLen)}
    /\ bufs = <<Handle(View(1, 0, IntLen), 0, Undefined, Undefined)>>
    /\ last = NoOp /\ cc = NoConcat
    /\ StreamIdle /\ CodecIdle

NextInt ==
    \/ \E h \in Handles, v \in IntValues, o \in 0..IntLen - 1 : WriteUInt32BE(h, v, o)
    \/ \E h \in Handles, o \in 0..IntLen - 1 : ReadUInt32BE(h, o)

SpecInt == InitInt /\ [][NextInt]_vars

(***************************************************************************)
(* Strings and UTF-8.  A string is a sequence of UTF-16 code units.         *)
(***************************************************************************)
IsHighSurrogate(u) == u >= 55296 /\ u <= 56319
IsLowSurrogate(u) == u >= 56320 /\ u <= 57343

\* The UTF-8 bytes of one code point.
EncodeCodePoint(cp) ==
    IF cp < 128 THEN <<cp>>
    ELSE IF cp < 2048 THEN <<192 + (cp \div 64), 128 + (cp % 64)>>
    ELSE IF cp < 65536
         THEN <<224 + (cp \div 4096), 128 + ((cp \div 64) % 64), 128 + (cp % 64)>>
    ELSE <<240 + (cp \div 262144), 128 + ((cp \div 4096) % 64),
           128 + ((cp \div 64) % 64), 128 + (cp % 64)>>

\* UTF-8 encoding of a string from code unit i on: a surrogate pair is one
\* code point, an unpaired surrogate is encoded as U+FFFD.
RECURSIVE Utf8Encode(_, _)
Utf8Encode(str, i) ==
    IF i > Len(str) THEN <<>>
    ELSE IF IsHighSurrogate(str[i]) /\ i < Len(str) /\ IsLowSurrogate(str[i + 1])
         THEN EncodeCodePoint(65536 + (str[i] - 55296) * 1024 + (str[i + 1] - 56320))
                 \o Utf8Encode(str, i + 2)
    ELSE IF IsHighSurrogate(str[i]) \/ IsLowSurrogate(str[i])
         THEN <<239, 191, 189>> \o Utf8Encode(str, i + 1)
    ELSE EncodeCodePoint(str[i]) \o Utf8Encode(str, i + 1)

\* The UTF-16 code units of one code point.
CodeUnitsOf(cp) ==
    IF cp < 65536 THEN <<cp>>
    ELSE <<55296 + ((cp - 65536) \div 1024), 56320 + ((cp - 65536) % 1024)>>

\* UTF-8 decoding of bytes from index i on: an ill-formed sequence decodes to
\* U+FFFD.
RECURSIVE Utf8Decode(_, _)
Utf8Decode(b, i) ==
    IF i > Len(b) THEN <<>>
    ELSE LET Cont(k) == i + k <= Len(b) /\ b[i + k] >= 128 /\ b[i + k] <= 191
             Low(k) == b[i + k] - 128
             cp2 == (b[i] - 192) * 64 + Low(1)
             cp3 == (b[i] - 224) * 4096 + Low(1) * 64 + Low(2)
             cp4 == (b[i] - 240) * 262144 + Low(1) * 4096 + Low(2) * 64 + Low(3)
         IN  IF b[i] < 128 THEN <<b[i]>> \o Utf8Decode(b, i + 1)
             ELSE IF b[i] >= 194 /\ b[i] <= 223 /\ Cont(1)
                  THEN <<cp2>> \o Utf8Decode(b, i + 2)
             ELSE IF b[i] >= 224 /\ b[i] <= 239 /\ Cont(1) /\ Cont(2)
                     /\ cp3 >= 2048 /\ ~(cp3 >= 55296 /\ cp3 <= 57343)
                  THEN <<cp3>> \o Utf8Decode(b, i + 3)
             ELSE IF b[i] >= 240 /\ b[i] <= 244 /\ Cont(1) /\ Cont(2) /\ Cont(3)
                     /\ cp4 >= 65536 /\ cp4 <= 1114111
                  THEN CodeUnitsOf(cp4) \o Utf8Decode(b, i + 4)
             ELSE <<65533>> \o Utf8Decode(b, i + 1)

\* Buffer.from(source): UTF-8.
BufferFrom(str) == Utf8Encode(str, 1)
\* TextEncoder.prototype.encode: UTF-8.
TextEncoderEncode(str) == Utf8Encode(str, 1)
\* strings.encodeUTF8
encodeUTF8(str) == Utf8Encode(str, 1)

\* Buffer.prototype.toString(): UTF-8, a leading byte order mark is kept.
BufferToString(b) == Utf8Decode(b, 1)
\* new TextDecoder().decode: UTF-8 with ignoreBOM false, so a leading byte
\* order mark EF BB BF is dropped.
TextDecoderDecode(b) ==
    IF Len(b) >= 3 /\ SubSeq(b, 1, 3) = <<239, 187, 191>> THEN Utf8Decode(b, 4)
    ELSE Utf8Decode(b, 1)
\* strings.decodeUTF8
decodeUTF8(b) == Utf8Decode(b, 1)

\* VSBuffer.fromString: the bytes of the new buffer.
fromString(e, str) ==
    IF e.hasBuffer THEN BufferFrom(str)
    ELSE IF e.hasTextEncoder THEN TextEncoderEncode(str)
    ELSE encodeUTF8(str)

\* VSBuffer.toString
toString(e, b) ==
    IF e.hasBuffer THEN BufferToString(b)
    ELSE IF e.hasTextDecoder THEN TextDecoderDecode(b)
    ELSE decodeUTF8(b)

(***************************************************************************)
(* SpecCodec: a string is encoded with fromString and the buffer decoded   *)
(* with toString, on any host.                                              *)
(*   source   the string                                                    *)
(*   encoded  the bytes of fromString(source), once called                  *)
(*   decoded  the string toString returned, once called                     *)
(***************************************************************************)
CodeUnits == {97, 233, 8364, 65279, 55357, 56832}
Strings == UNION {[1..n -> CodeUnits] : n \in 0..MaxStr}

InitCodec ==
    /\ env \in Envs
    /\ source \in Strings /\ encoded = Undefined /\ decoded = Undefined
    /\ mem = <<>> /\ bufs = <<>> /\ last = NoOp /\ cc = NoConcat
    /\ StreamIdle

FromString ==
    /\ encoded = Undefined
    /\ encoded' = Some(fromString(env, source))
    /\ UNCHANGED <<env, source, decoded, bufVars, streamVars>>

ToString ==
    /\ encoded # Undefined /\ decoded = Undefined
    /\ decoded' = Some(toString(env, encoded[1]))
    /\ UNCHANGED <<env, source, encoded, bufVars, streamVars>>

NextCodec == FromString \/ ToString

SpecCodec == InitCodec /\ [][NextCodec]_vars

(***************************************************************************)
(* The push-based stream collaborator: open until it signals end or error, *)
(* and no chunk after either.                                              *)
(*   inState    open, ended or errored                                     *)
(*   delivered  the chunks the stream has delivered                        *)
(*   chunks     the chunks consumeStream has collected                     *)
(*   promise    the promise streamToBuffer returned                        *)
(*   settles    how often its resolve or reject function has been called   *)
(*   outState, outChunks  the stream streamToBufferReadableStream returned *)
(***************************************************************************)
Pending == [state |-> "pending", value |-> Undefined]

\* The resolve and reject functions of a promise: only the first call settles.
Resolve(p, value) == IF p.state = "pending" THEN [state |-> "resolved", value |-> Some(value)] ELSE p
Reject(p) == IF p.state = "pending" THEN [state |-> "rejected", value |-> Undefined] ELSE p

\* Only the chunk delivered last is handed on.
Reducer_lastChunk(hasBuffer, chunkBytes, garbage) ==
    IF chunkBytes = <<>> THEN <<>> ELSE chunkBytes[Len(chunkBytes)]

\* Line 160, chunks => VSBuffer.concat(chunks): the bytes of the concatenation
\* of buffers that each own their store.
Reducer(hasBuffer, chunkBytes, garbage) ==
    LET r == concat(hasBuffer, chunkBytes,
                    [i \in 1..Len(chunkBytes) |-> View(i, 0, Len(chunkBytes[i]))],
                    Undefined, garbage)
    IN  Bytes(r.mem, r.buf)

\* streams.consumeStream: its data, end and error listeners.
consumeStream_onData(collected, data) == Append(collected, data)
consumeStream_onEnd(p, reduced) == Resolve(p, reduced)
\* The chunks collected so far handed out on error.
consumeStream_onError_partial(p, collected) == Resolve(p, Flatten(collected))
consumeStream_onError(p, collected) == Reject(p)

\* VSBuffer.wrap: a buffer on the memory of the array it is given; with the
\* host Buffer an array that is no Buffer is rewrapped by Buffer.from over
\* the same ArrayBuffer range, which shares the memory as well.
wrap(e, actual) ==
    IF e.hasBuffer /\ ~actual.isBuffer
    THEN [bytes |-> actual.bytes, backing |-> actual.id]
    ELSE [bytes |-> actual.bytes, backing |-> actual.id]

\* A raw chunk copied into a buffer of its own.
ToVSBuffer_copy(e, data) ==
    IF data.type = "string" THEN [bytes |-> fromString(e, data.text), backing |-> 0]
    ELSE [bytes |-> data.array.bytes, backing |-> 0]

\* Line 168, the data transformer: backing is the array a buffer shares its
\* memory with, 0 for a buffer with memory of its own.
ToVSBuffer(e, data) ==
    IF data.type = "string" THEN [bytes |-> fromString(e, data.text), backing |-> 0]
    ELSE wrap(e, data.array)

\* streams.transform: each chunk is transformed and written to the target
\* stream; end and error are forwarded.
transform_onData(out, transformed) == Append(out, transformed)
transform_onEnd(state) == IF state = "open" THEN "ended" ELSE state
transform_onError(state) == IF state = "open" THEN "errored" ELSE state

StreamInit ==
    /\ inState = "open" /\ delivered = <<>> /\ chunks = <<>>
    /\ promise = Pending /\ settles = 0
    /\ outState = "open" /\ outChunks = <<>>

(***************************************************************************)
(* SpecStream: streamToBuffer on a stream of buffers.                      *)
(***************************************************************************)
BufferChunks == {<<97, 98>>, <<99, 100>>, <<>>}

InitStream ==
    /\ env \in Hosts /\ StreamInit /\ CodecIdle
    /\ mem = <<>> /\ bufs = <<>> /\ last = NoOp /\ cc = NoConcat

StreamData(c) ==
    /\ inState = "open" /\ Len(delivered) < MaxChunks
    /\ delivered' = Append(delivered, c)
    /\ chunks' = consumeStream_onData(chunks, c)
    /\ UNCHANGED <<env, inState, promise, settles, outState, outChunks, bufVars, codecVars>>

StreamEnd ==
    /\ inState = "open"
    /\ inState' = "ended"
    /\ \E g \in Garbage(Len(Flatten(chunks))) :
          promise' = consumeStream_onEnd(promise, Reducer(env.hasBuffer, chunks, g))
    /\ settles' = settles + 1
    /\ UNCHANGED <<env, delivered, chunks, outState, outChunks, bufVars, codecVars>>

StreamError ==
    /\ inState = "open"
    /\ inState' = "errored"
    /\ promise' = consumeStream_onError(promise, chunks)
    /\ settles' = settles + 1
    /\ UNCHANGED <<env, delivered, chunks, outState, outChunks, bufVars, codecVars>>

NextStream == (\E c \in BufferChunks : StreamData(c)) \/ StreamEnd \/ StreamError

\* The stream is finite: while it is open it eventually signals end or error.
SpecStream == InitStream /\ [][NextStream]_vars /\ WF_vars(StreamEnd \/ StreamError)

(***************************************************************************)
(* SpecTransform: streamToBufferReadableStream on a stream of text chunks  *)
(* and raw byte arrays.                                                    *)
(***************************************************************************)
TextChunks == {[type |-> "string", text |-> t] : t \in {<<104, 105>>, <<8364>>, <<>>}}
Arrays(e) ==
    {[id |-> 1, bytes |-> <<1, 2>>, isBuffer |-> FALSE],
     [id |-> 2, bytes |-> <<104, 105>>, isBuffer |-> e.hasBuffer]}
ArrayChunks(e) == {[type |-> "bytes", array |-> a] : a \in Arrays(e)}

InitTransform ==
    /\ env \in Envs /\ StreamInit /\ CodecIdle
    /\ mem = <<>> /\ bufs = <<>> /\ last = NoOp /\ cc = NoConcat

TransformData(c) ==
    /\ inState = "open" /\ Len(delivered) < MaxChunks
    /\ delivered' = Append(delivered, c)
    /\ outChunks' = transform_onData(outChunks, ToVSBuffer(env, c))
    /\ UNCHANGED <<env, inState, chunks, promise, settles, outState, bufVars, codecVars>>

TransformEnd ==
    /\ inState = "open"
    /\ inState' = "ended"
    /\ outState' = transform_onEnd(outState)
    /\ UNCHANGED <<env, delivered, chunks, promise, settles, outChunks, bufVars, codecVars>>

TransformError ==
    /\ inState = "open"
    /\ inState' = "errored"
    /\ outState' = transform_onError(outState)
    /\ UNCHANGED <<env, delivered, chunks, promise, settles, outChunks, bufVars, codecVars>>

NextTransform ==
    \/ \E c \in TextChunks \cup ArrayChunks(env) : TransformData(c)
    \/ TransformEnd
    \/ TransformError

SpecTransform == InitTransform /\ [][NextTransform]_vars

(***************************************************************************)
(* Properties of the buffer operations.                                    *)
(***************************************************************************)
\* The bytes of the listed buffers in memory m, one sequence per buffer.
Contents(m, list) == [i \in 1..Len(list) |-> Bytes(m, ViewOf(list[i]))]

WriteOps == {"set", "writeUInt8", "writeUInt32BE"}

\* C1: concat without totalLength returns a buffer whose byteLength is the
\* sum of the inputs' byteLength and whose bytes are the inputs' bytes, as
\* they were at the call, back to back in input order (no bytes for the
\* empty list).
C1_ConcatIsConcatenation ==
    [][(last'.op = "concat" /\ last'.total = Undefined) =>
          /\ ~last'.threw
          /\ bufs'[last'.ret].view.len = Len(Flatten(Contents(mem, last'.src)))
          /\ Bytes(mem', bufs'[last'.ret].view) = Flatten(Contents(mem, last'.src))]_vars

C1_Witness ==
    /\ last.op = "concat" /\ last.total = Undefined /\ Len(last.src) = 2
    /\ last.src[1] # last.src[2]
    /\ Bytes(mem, ViewOf(last.ret)) = <<170, 0>>

\* C9 as stated: with an explicit totalLength T concat always returns a
\* buffer of byteLength T, also when T is smaller than the sum of the input
\* lengths.
C9_ExplicitLengthAlwaysReturns ==
    (last.op = "concat" /\ last.total # Undefined) =>
        (~last.threw /\ ViewOf(last.ret).len = last.total[1])

\* C9 amended: with an explicit totalLength T at least the sum of the input
\* lengths, concat returns a buffer of byteLength exactly T in which each
\* input lies at its running offset; with T smaller than the sum it throws
\* (the RangeError of set), returns no buffer and leaves memory as it was.
C9_ExplicitLengthIsCapacity ==
    [][(last'.op = "concat" /\ last'.total # Undefined) =>
          LET flat == Flatten(Contents(mem, last'.src))
              T == last'.total[1]
          IN  IF Len(flat) <= T
              THEN /\ ~last'.threw
                   /\ bufs'[last'.ret].view.len = T
                   /\ SubSeq(Bytes(mem', bufs'[last'.ret].view), 1, Len(flat)) = flat
              ELSE last'.threw /\ mem' = mem /\ bufs' = bufs]_vars

C9_Witness ==
    /\ last.op = "concat" /\ last.total # Undefined /\ ~last.threw
    /\ Len(Flatten(Contents(mem, last.src))) > 0
    /\ last.total[1] > Len(Flatten(Contents(mem, last.src)))

\* C2: a slice taken with 0 <= start <= end <= byteLength has byteLength
\* end - start and at all times shows bytes start .. end-1 of the buffer it
\* was taken from, whatever has been written through either; and a write
\* through the slice at an offset inside it changes no byte of that buffer
\* outside start .. end-1.
ValidSlice(s) ==
    /\ s \in Handles /\ bufs[s].parent # 0
    /\ bufs[s].start # Undefined /\ bufs[s].end # Undefined
    /\ 0 <= bufs[s].start[1] /\ bufs[s].start[1] <= bufs[s].end[1]
    /\ bufs[s].end[1] <= ViewOf(bufs[s].parent).len

InsideOffset(op) ==
    IF op.op = "set" THEN ~op.threw
    ELSE op.off[1] >= 0 /\ op.off[1] < ViewOf(op.h).len

C2_SliceIsView ==
    /\ [](\A s \in Handles : ValidSlice(s) =>
            /\ ViewOf(s).len = bufs[s].end[1] - bufs[s].start[1]
            /\ \A i \in 0..(ViewOf(s).len - 1) :
                  ElementAt(mem, ViewOf(s), i)
                     = ElementAt(mem, ViewOf(bufs[s].parent), bufs[s].start[1] + i))
    /\ [][(last'.op \in WriteOps /\ ValidSlice(last'.h) /\ InsideOffset(last')) =>
            \A j \in 0..(ViewOf(bufs[last'.h].parent).len - 1) :
               (j < bufs[last'.h].start[1] \/ j >= bufs[last'.h].end[1]) =>
                  ElementAt(mem', ViewOf(bufs[last'.h].parent), j)
                     = ElementAt(mem, ViewOf(bufs[last'.h].parent), j)]_vars

C2_Witness ==
    \E s \in Handles :
       /\ ValidSlice(s) /\ bufs[s].start = Some(1) /\ bufs[s].end = Some(2)
       /\ last.op = "writeUInt8" /\ last.h = s /\ last.off = Some(0)
       /\ Bytes(mem, ViewOf(bufs[s].parent)) = <<170, 1>>

\* C10: concat changes no byte of any buffer there is; once it has returned,
\* a write through an input, or through a slice of an input, changes no byte
\* of the result, and a write through the result changes no byte of an input.
IsInput(h) == \E i \in 1..Len(cc.inputs) : cc.inputs[i] = h

C10_ConcatOwnsItsStorage ==
    [][/\ last'.op = "concat" =>
             \A h \in Handles : Bytes(mem', ViewOf(h)) = Bytes(mem, ViewOf(h))
       /\ (last'.op \in WriteOps /\ cc.ret # 0) =>
             /\ (IsInput(last'.h) \/ IsInput(bufs[last'.h].parent)) =>
                   Bytes(mem', ViewOf(cc.ret)) = Bytes(mem, ViewOf(cc.ret))
             /\ last'.h = cc.ret =>
                   \A h \in Handles : IsInput(h) =>
                      Bytes(mem', ViewOf(h)) = Bytes(mem, ViewOf(h))]_vars

C10_Witness ==
    /\ cc.inputs = <<1>> /\ last.op = "writeUInt8" /\ last.h = 1
    /\ Bytes(mem, ViewOf(1)) = <<1>> /\ Bytes(mem, ViewOf(cc.ret)) = <<170>>

\* The value modulo 2^32, as limbs <<hi, lo>>.
Low32(v) ==
    IF ~v.neg THEN <<v.hi, v.lo>>
    ELSE <<(65536 - v.hi - (IF v.lo = 0 THEN 0 ELSE 1)) % 65536, (65536 - v.lo) % 65536>>

\* floor((value mod 2^32) / 2^(8 * (3 - k))) mod 256
BigEndianByte(v, k) ==
    LET w == Low32(v)
    IN  CASE k = 0 -> w[1] \div 256
          [] k = 1 -> w[1] % 256
          [] k = 2 -> w[2] \div 256
          [] k = 3 -> w[2] % 256

IsUInt32(v) == ~v.nan /\ ~v.neg /\ v.top = 0

\* C3: readUInt32BE(o) right after writeUInt32BE(v, o) on the same buffer, with
\* v in [0, 2^32-1] and four bytes from o, returns v.
C3_WriteThenRead ==
    [][(/\ last.op = "writeUInt32BE" /\ last'.op = "readUInt32BE"
        /\ last'.h = last.h /\ last'.off = last.off
        /\ last.off[1] + 4 <= ViewOf(last.h).len
        /\ IsUInt32(last.val)) => last'.val = last.val]_vars

C3_Witness ==
    /\ last.op = "readUInt32BE" /\ last.off = Some(1)
    /\ last.val = Num(FALSE, 0, 32768, 0)

\* C4: writeUInt32BE(value, offset) leaves at offset + k, k in 0..3, the byte
\* floor((value mod 2^32) / 2^(8 * (3 - k))) mod 256, also for values outside
\* [0, 2^32-1], and changes no other byte of memory.
C4_BigEndianBytes ==
    [][last'.op = "writeUInt32BE" =>
          \A s \in 1..Len(mem) : \A p \in 1..Len(mem[s]) :
             LET k == p - 1 - ViewOf(last'.h).off - last'.off[1]
             IN  IF s = ViewOf(last'.h).store /\ k \in 0..3
                 THEN mem'[s][p] = BigEndianByte(last'.val, k)
                 ELSE mem'[s][p] = mem[s][p]]_vars

C4_Witness ==
    /\ last.op = "writeUInt32BE" /\ last.off = Some(1)
    /\ last.val = Num(FALSE, 1, 258, 772)
    /\ SubSeq(Bytes(mem, ViewOf(last.h)), 2, 5) = <<1, 2, 3, 4>>

(***************************************************************************)
(* Properties of the stream adapters and of the string conversion.         *)
(***************************************************************************)
\* C5: the promise of streamToBuffer is resolved only once the stream has
\* ended, it is resolved when the stream ends, with the bytes of the delivered
\* chunks in delivery order, and a stream that does not fail leads to a
\* resolved promise.
C5_ResolvesWithAllChunks ==
    /\ [](promise.state = "resolved" =>
            inState = "ended" /\ promise.value = Some(Flatten(delivered)))
    /\ [](inState = "ended" => promise.state = "resolved")
    /\ <>(inState = "errored" \/ promise.state = "resolved")

C5_Witness ==
    /\ delivered = <<(<<97, 98>>), (<<99, 100>>)>>
    /\ promise = [state |-> "resolved", value |-> Some(<<97, 98, 99, 100>>)]

\* C6: once the stream has signalled an error the promise is rejected and
\* carries no buffer; a settled promise never changes, and its resolve and
\* reject functions are called once at most.
C6_ErrorRejects ==
    /\ [](inState = "errored" => promise = [state |-> "rejected", value |-> Undefined])
    /\ [](settles <= 1)
    /\ [][promise.state # "pending" => promise' = promise]_vars

C6_Witness ==
    /\ inState = "errored" /\ delivered = <<(<<97, 98>>)>>
    /\ promise.state = "rejected"

\* C7: the output stream has one buffer per input chunk, in delivery order,
\* fromString(chunk) for a text chunk and wrap(chunk) for a byte array; it is
\* ended or errored exactly when the input is, and gets no chunk after that.
C7_TransformMapsInOrder ==
    /\ [](/\ Len(outChunks) = Len(delivered)
          /\ \A i \in 1..Len(delivered) :
                outChunks[i] = IF delivered[i].type = "string"
                               THEN [bytes |-> fromString(env, delivered[i].text), backing |-> 0]
                               ELSE wrap(env, delivered[i].array)
          /\ outState = inState)
    /\ [][outState # "open" => outChunks' = outChunks]_vars

C7_Witness ==
    /\ outState = "ended" /\ Len(delivered) = 2
    /\ delivered[1] = [type |-> "string", text |-> <<104, 105>>]
    /\ delivered[2].type = "bytes" /\ delivered[2].array.id = 1
    /\ outChunks = <<[bytes |-> <<104, 105>>, backing |-> 0], [bytes |-> <<1, 2>>, backing |-> 1]>>

\* A string without unpaired surrogates, which UTF-8 can represent.
RECURSIVE WellFormed(_, _)
WellFormed(str, i) ==
    IF i > Len(str) THEN TRUE
    ELSE IF IsHighSurrogate(str[i])
         THEN i < Len(str) /\ IsLowSurrogate(str[i + 1]) /\ WellFormed(str, i + 2)
    ELSE ~IsLowSurrogate(str[i]) /\ WellFormed(str, i + 1)

\* C8, for the strings that UTF-8 can represent: on every host,
\* fromString(s).toString() is s.
C8_RoundTrip ==
    (decoded # Undefined /\ WellFormed(source, 1)) => decoded[1] = source

====
